---- MODULE Spec2Model ----
(***************************************************************************)
(* The OSM AI plugin: the Overpass-result-to-GeoJSON conversion            *)
(* (src/core/overpass_client.py), the LLM call (src/core/llm_client.py)    *)
(* and the send workflow (src/osm_ai_plugin.py).                           *)
(*                                                                         *)
(* Specifications:                                                         *)
(*   Spec      one call of fetch_osm_geojson or of                         *)
(*             convert_overpass_to_geojson, stepped one loop iteration at  *)
(*             a time over a payload drawn from ElementPool;               *)
(*   SpecElem  one call of convert_node_to_feature or                      *)
(*             convert_way_to_feature on one element and a node index      *)
(*             drawn from larger sets;                                     *)
(*   SpecPair  two calls of convert_overpass_to_geojson, interleaved;      *)
(*   SpecLlm   one call of call_llm_for_overpass;                          *)
(*   SpecSend  two runs of on_send_clicked on the same input;              *)
(*   SpecTabs  the plugin object under its callbacks: sends, new chats,    *)
(*             tab switches and tab closes, also those dispatched by the   *)
(*             processEvents calls of a running send.                      *)
(*                                                                         *)
(* Encoding of Python values                                               *)
(*   None / a value v          <<>> / <<v>>   (None, Some)                 *)
(*   dict.get(k) of a missing key is None, as in Python                    *)
(*   a tag dict                the set of its <<key, value>> items         *)
(*   the node index            a function  id -> [lat, lon]                *)
(*   a coordinate pair [a, b]  the tuple <<a, b>>                          *)
(***************************************************************************)
EXTENDS Integers, Sequences, FiniteSets, TLC

VARIABLES
    call,        \* the function that was called
    response,    \* what the HTTP request of fetch_osm_geojson comes back with
    osm_data,    \* the parsed payload
    pc,          \* position in the called function
    i,           \* position of the running for-loop in the element list
    nodes,       \* node index of convert_overpass_to_geojson
    features,    \* feature list of convert_overpass_to_geojson
    origin,      \* history: origin[k] = position of the element features[k] was built from
    exception,   \* the exception that left the call, if any
    returned,    \* the value the call returned, if any
    elem,        \* SpecElem: the element handed to the converter
    index,       \* SpecElem: the node index handed to convert_way_to_feature
    outcome,     \* SpecElem: what the converter call did
    calls,       \* SpecPair: the locals of each running conversion
    llm,         \* SpecLlm: a call of call_llm_for_overpass
    send,        \* SpecSend: runs of on_send_clicked
    plugin       \* SpecTabs: the plugin object, its widgets and its running sends

vars == <<call, response, osm_data, pc, i, nodes, features, origin,
          exception, returned, elem, index, outcome, calls, llm, send, plugin>>

\* the variables of Spec and SpecElem
coreVars == <<call, response, osm_data, pc, i, nodes, features, origin,
              exception, returned, elem, index, outcome>>

\* the variables of the other specifications
others == <<calls, llm, send, plugin>>

\* the value of a variable in the specifications that do not use it
Unused == <<>>

-----------------------------------------------------------------------------
(* Bounds *)

\* longest element list of a payload
MaxElems == 3

\* longest embedded geometry / node reference list of a path
MaxPath == 4

-----------------------------------------------------------------------------
(* Python values *)

None == <<>>

Some(v) == <<v>>

\* the empty dict {}
EmptyDict == {}

\* key in d
HasKey(d, key) == \E item \in d : item[1] = key

\* d.get(key) == value
GetEquals(d, key, value) == <<key, value>> \in d

\* str(x) inside an f-string, x an integer or None
Str(x) == IF x = None THEN "None" ELSE ToString(x[1])

-----------------------------------------------------------------------------
(* Elements of a payload *)

Node(id, lat, lon, tags) ==
    [type |-> "node", id |-> id, lat |-> lat, lon |-> lon, tags |-> tags,
     geometry |-> None, nodes |-> None]

Way(id, geometry, refs, tags) ==
    [type |-> "way", id |-> id, lat |-> None, lon |-> None, tags |-> tags,
     geometry |-> geometry, nodes |-> refs]

\* an element of another kind; type "None" is an element without a "type" key
Other(type, id) ==
    [type |-> type, id |-> id, lat |-> None, lon |-> None, tags |-> EmptyDict,
     geometry |-> None, nodes |-> None]

\* entries of an embedded geometry list
Pair(lat, lon) == [kind |-> "pair", lat |-> lat, lon |-> lon]

\* a null entry
NullEntry == [kind |-> "null", lat |-> None, lon |-> None]

\* an entry without a "lon" key
NoLonEntry == [kind |-> "no_lon", lat |-> Some(0), lon |-> None]

-----------------------------------------------------------------------------
(* convert_node_to_feature *)

\* "if not lat or not lon": 0 taken for a missing coordinate
CoordinateMissing_falsy(lat, lon) ==
    lat \in {None, Some(0)} \/ lon \in {None, Some(0)}

\* lat is None or lon is None
CoordinateMissing(lat, lon) == lat = None \/ lon = None

\* the input's order kept: [lat, lon]
PointCoordinates_latlon(lat, lon) == <<lat, lon>>

\* "coordinates": [lon, lat]
PointCoordinates(lat, lon) == <<lon, lat>>

\* the tags used for classification left out of the properties
Properties_filtered(element) ==
    {item \in element.tags : item[1] \notin {"area", "building", "landuse"}}

\* element.get("tags", {}), handed on as the feature's properties
Properties(element) == element.tags

\* the identifier alone, without the kind before it
FeatureId_bare(kind, element) == Str(element.id)

\* f"node/{node.get('id')}" and f"way/{way.get('id')}"
FeatureId(kind, element) == kind \o "/" \o Str(element.id)

\* the value returned: None, or Some(feature)
convert_node_to_feature(node) ==
    LET lat == node.lat
        lon == node.lon
    IN  IF CoordinateMissing(lat, lon)
        THEN None
        ELSE Some([type       |-> "Feature",
                   id         |-> FeatureId("node", node),
                   geometry   |-> [type |-> "Point",
                                   coordinates |-> PointCoordinates(lat, lon)],
                   properties |-> Properties(node)])

-----------------------------------------------------------------------------
(* convert_way_to_feature *)

\* positions of the geometry entries the list comprehension cannot subscript
BadEntries(geometry) == {k \in 1..Len(geometry) : geometry[k].kind # "pair"}

\* the exception the list comprehension stops with, "" when it completes:
\* None["lon"] is a TypeError, a dict without the key a KeyError
EmbeddedError(geometry) ==
    IF BadEntries(geometry) = {}
    THEN ""
    ELSE LET first == CHOOSE k \in BadEntries(geometry) :
                          \A m \in BadEntries(geometry) : k <= m
         IN  IF geometry[first].kind = "null" THEN "TypeError" ELSE "KeyError"

\* [n["lon"], n["lat"]]
EmbeddedPair(n) == <<n.lon, n.lat>>

\* [[n["lon"], n["lat"]] for n in way["geometry"]]
EmbeddedCoordinates(geometry) ==
    [k \in 1..Len(geometry) |-> EmbeddedPair(geometry[k])]

\* a placeholder appended for a reference that is not in the index
ResolveOne_placeholder(coordinates, node_id, index_) ==
    IF node_id \in DOMAIN index_
    THEN Append(coordinates, <<index_[node_id].lon, index_[node_id].lat>>)
    ELSE Append(coordinates, <<None, None>>)

\* one iteration of "for node_id in way["nodes"]"
ResolveOne(coordinates, node_id, index_) ==
    IF node_id \in DOMAIN index_
    THEN Append(coordinates, <<index_[node_id].lon, index_[node_id].lat>>)
    ELSE coordinates

RECURSIVE ResolveFrom(_, _, _, _)
ResolveFrom(coordinates, refs, k, index_) ==
    IF k > Len(refs)
    THEN coordinates
    ELSE ResolveFrom(ResolveOne(coordinates, refs[k], index_), refs, k + 1, index_)

\* the loop over way["nodes"], started with coordinates = []
ResolvedCoordinates(refs, index_) == ResolveFrom(<<>>, refs, 1, index_)

\* "if way.get("geometry")": an empty embedded list falls through to the references
WayCoordinates_truthy(way, index_) ==
    IF way.geometry # None /\ way.geometry # Some(<<>>)
    THEN EmbeddedCoordinates(way.geometry[1])
    ELSE IF way.nodes # None
         THEN ResolvedCoordinates(way.nodes[1], index_)
         ELSE <<>>

\* coordinates after the if/elif on "geometry" and "nodes"
WayCoordinates(way, index_) ==
    IF way.geometry # None
    THEN EmbeddedCoordinates(way.geometry[1])
    ELSE IF way.nodes # None
         THEN ResolvedCoordinates(way.nodes[1], index_)
         ELSE <<>>

\* a single coordinate let through
TooShort_one(coordinates) == Len(coordinates) < 1

\* len(coordinates) < 2
TooShort(coordinates) == Len(coordinates) < 2

\* three entries taken for enough
is_closed_three(coordinates) ==
    /\ Len(coordinates) >= 3
    /\ coordinates[1] = coordinates[Len(coordinates)]

is_closed(coordinates) ==
    /\ Len(coordinates) >= 4
    /\ coordinates[1] = coordinates[Len(coordinates)]

AreaKeys == {"building", "landuse", "natural", "leisure", "amenity"}

\* any value of the tag area taken for "yes"
is_area_any_value(closed, tags) ==
    /\ closed
    /\ \/ HasKey(tags, "area")
       \/ \E key \in AreaKeys : HasKey(tags, key)

is_area(closed, tags) ==
    /\ closed
    /\ \/ GetEquals(tags, "area", "yes")
       \/ \E key \in AreaKeys : HasKey(tags, key)

WayGeometry(area, coordinates) ==
    IF area
    THEN [type |-> "Polygon", coordinates |-> <<coordinates>>]
    ELSE [type |-> "LineString", coordinates |-> coordinates]

\* the call: exc is the exception it raised ("" when it returned), value what
\* it returned (None or Some(feature)), coordinates its local of that name
convert_way_to_feature(way, index_) ==
    IF way.geometry # None /\ EmbeddedError(way.geometry[1]) # ""
    THEN [exc |-> EmbeddedError(way.geometry[1]), coordinates |-> <<>>,
          value |-> None]
    ELSE LET coordinates == WayCoordinates(way, index_)
             tags == way.tags
         IN  IF TooShort(coordinates)
             THEN [exc |-> "", coordinates |-> coordinates, value |-> None]
             ELSE [exc |-> "", coordinates |-> coordinates,
                   value |-> Some(
                     [type       |-> "Feature",
                      id         |-> FeatureId("way", way),
                      geometry   |-> WayGeometry(
                                       is_area(is_closed(coordinates), tags),
                                       coordinates),
                      properties |-> Properties(way)])]

-----------------------------------------------------------------------------
(* Payloads of Spec *)

\* an embedded entry {"lat": a, "lon": b}
P(a, b) == Pair(Some(a), Some(b))

ElementPool ==
    { Node(Some(1), Some(0), Some(1), EmptyDict),
      Node(Some(2), Some(1), Some(0), {<<"amenity", "cafe">>}),
      Node(Some(1), Some(1), Some(1), EmptyDict),
      Node(Some(2), None, Some(0), EmptyDict),
      Node(Some(1), Some(1), None, EmptyDict),
      Node(None, Some(0), Some(1), EmptyDict),
      Way(Some(7), Some(<<P(0, 0), P(0, 1), P(1, 1), P(0, 0)>>), None,
          {<<"building", "yes">>}),
      Way(Some(8), None, Some(<<1, 2, 3>>), {<<"highway", "residential">>}),
      Way(Some(9), None, Some(<<1, 2, 2, 1>>), {<<"landuse", "grass">>}),
      Way(Some(7), Some(<<P(0, 1), NullEntry>>), None, EmptyDict),
      Other("relation", Some(5)),
      Other("None", Some(6)) }

ElementLists == UNION {[1..n -> ElementPool] : n \in 0..MaxElems}

\* has_elements: the payload has an "elements" key
Payloads ==
    {[has_elements |-> TRUE, elements |-> es] : es \in ElementLists}
    \cup {[has_elements |-> FALSE, elements |-> <<>>]}

\* no payload: the request or the JSON parse failed
NoPayload == [has_elements |-> FALSE, elements |-> <<>>]

Fetch == "fetch_osm_geojson"

Convert == "convert_overpass_to_geojson"

Responses == {"ok", "request_failed", "not_json"}

IdleElem == Other("None", None)

IdleOutcome == [done |-> FALSE, exc |-> "", coordinates |-> <<>>, value |-> None]

-----------------------------------------------------------------------------
(* fetch_osm_geojson and convert_overpass_to_geojson, one step at a time *)

\* the check on "elements" left out
HasElements_unchecked(data) == TRUE

\* "elements" in osm_data
HasElements(data) == data.has_elements

\* osm_data.get("elements", [])
Elements(data) == IF data.has_elements THEN data.elements ELSE <<>>

\* the last except clause missing: only the two named exceptions are wrapped
fetch_except_narrow(e) ==
    IF e = "RequestException" THEN "RuntimeError"
    ELSE IF e = "JSONDecodeError" THEN "RuntimeError"
    ELSE e

\* the except clauses of fetch_osm_geojson: what leaves it when e was raised
fetch_except(e) ==
    IF e = "RequestException" THEN "RuntimeError"
    ELSE IF e = "JSONDecodeError" THEN "RuntimeError"
    ELSE IF e = "RuntimeError" THEN e
    ELSE "RuntimeError"

\* the message of what leaves fetch_osm_geojson when e was raised with
\* str(e) = text: the parts of the f-string, in order
fetch_message(e, text) ==
    IF e = "RequestException" THEN <<"Overpass API request failed: ", text>>
    ELSE IF e = "JSONDecodeError"
         THEN <<"Failed to parse Overpass API response: ", text>>
    ELSE IF e = "RuntimeError" THEN <<text>>
    ELSE <<"Unexpected error fetching OSM data: ", text>>

\* an exception e raised in the call: under fetch_osm_geojson it passes the
\* except clauses, under a direct call of the conversion it leaves as it is
Raise(e, cause) ==
    /\ pc' = "raised"
    /\ exception' = Some([type    |-> IF call = Fetch THEN fetch_except(e) ELSE e,
                          cause   |-> cause,
                          message |-> IF call = Fetch
                                      THEN fetch_message(e, cause)
                                      ELSE <<cause>>])

\* features.insert(0, feature)
AppendFeature_front(fs, f) == <<f>> \o fs

\* features.append(feature)
AppendFeature(fs, f) == Append(fs, f)

\* nodes.setdefault(...): the first occurrence of an identifier kept
PutNode_first(index_, id, lat, lon) ==
    [k \in DOMAIN index_ \cup {id} |->
        IF k \in DOMAIN index_ THEN index_[k] ELSE [lat |-> lat, lon |-> lon]]

\* nodes[element["id"]] = {"lat": ..., "lon": ...}
PutNode(index_, id, lat, lon) ==
    [k \in DOMAIN index_ \cup {id} |->
        IF k = id THEN [lat |-> lat, lon |-> lon] ELSE index_[k]]

Init ==
    /\ call \in {Fetch, Convert}
    /\ response \in IF call = Fetch THEN Responses ELSE {"ok"}
    /\ osm_data \in IF response = "ok" THEN Payloads ELSE {NoPayload}
    /\ pc = IF call = Fetch THEN "post" ELSE "index"
    /\ i = 1
    /\ nodes = <<>>
    /\ features = <<>>
    /\ origin = <<>>
    /\ exception = None
    /\ returned = None
    /\ elem = IdleElem
    /\ index = <<>>
    /\ outcome = IdleOutcome
    /\ calls = Unused
    /\ llm = Unused
    /\ send = Unused
    /\ plugin = Unused

\* requests.post(...) and response.raise_for_status()
FetchPost ==
    /\ pc = "post"
    /\ IF response = "request_failed"
       THEN Raise("RequestException", "request")
       ELSE pc' = "json" /\ UNCHANGED exception
    /\ UNCHANGED <<call, response, osm_data, i, nodes, features, origin,
                   returned, elem, index, outcome>>
    /\ UNCHANGED others

\* osm_data = response.json()
FetchJson ==
    /\ pc = "json"
    /\ IF response = "not_json"
       THEN Raise("JSONDecodeError", "json")
       ELSE pc' = "check" /\ UNCHANGED exception
    /\ UNCHANGED <<call, response, osm_data, i, nodes, features, origin,
                   returned, elem, index, outcome>>
    /\ UNCHANGED others

\* if "elements" not in osm_data: raise RuntimeError(...)
FetchCheck ==
    /\ pc = "check"
    /\ IF ~HasElements(osm_data)
       THEN Raise("RuntimeError", "missing 'elements'")
       ELSE pc' = "index" /\ UNCHANGED exception
    /\ UNCHANGED <<call, response, osm_data, i, nodes, features, origin,
                   returned, elem, index, outcome>>
    /\ UNCHANGED others

\* one iteration of the first loop: the node lookup
IndexStep ==
    /\ pc = "index"
    /\ i <= Len(Elements(osm_data))
    /\ LET element == Elements(osm_data)[i]
       IN  IF element.type = "node"
           THEN IF element.id = None
                THEN /\ Raise("KeyError", "id")
                     /\ UNCHANGED <<i, nodes>>
                ELSE /\ nodes' = PutNode(nodes, element.id[1], element.lat, element.lon)
                     /\ i' = i + 1
                     /\ UNCHANGED <<pc, exception>>
           ELSE /\ i' = i + 1
                /\ UNCHANGED <<pc, exception, nodes>>
    /\ UNCHANGED <<call, response, osm_data, features, origin, returned,
                   elem, index, outcome>>
    /\ UNCHANGED others

\* the first loop ends, the second begins
IndexDone ==
    /\ pc = "index"
    /\ i > Len(Elements(osm_data))
    /\ pc' = "convert"
    /\ i' = 1
    /\ UNCHANGED <<call, response, osm_data, nodes, features, origin,
                   exception, returned, elem, index, outcome>>
    /\ UNCHANGED others

\* an element of another kind rejected instead of skipped
ConvertElement_strict(element, index_) ==
    IF element.type = "node"
    THEN [exc |-> "", value |-> convert_node_to_feature(element)]
    ELSE IF element.type = "way"
         THEN [exc   |-> convert_way_to_feature(element, index_).exc,
               value |-> convert_way_to_feature(element, index_).value]
         ELSE [exc |-> "ValueError", value |-> None]

\* what one iteration of the second loop gets from the converters:
\* exc the exception raised ("" for none), value None or Some(feature)
ConvertElement(element, index_) ==
    IF element.type = "node"
    THEN [exc |-> "", value |-> convert_node_to_feature(element)]
    ELSE IF element.type = "way"
         THEN [exc   |-> convert_way_to_feature(element, index_).exc,
               value |-> convert_way_to_feature(element, index_).value]
         ELSE [exc |-> "", value |-> None]

\* the second loop with a path's references popped from the index as they
\* are resolved
ConvertStep_consuming ==
    /\ pc = "convert"
    /\ i <= Len(Elements(osm_data))
    /\ LET element == Elements(osm_data)[i]
           r == ConvertElement(element, nodes)
           used == IF element.type = "way" /\ element.nodes # None
                   THEN {element.nodes[1][k] : k \in DOMAIN element.nodes[1]}
                   ELSE {}
       IN  IF r.exc # ""
           THEN /\ Raise(r.exc, "geometry")
                /\ UNCHANGED <<i, features, origin, nodes>>
           ELSE /\ IF r.value # None
                   THEN /\ features' = AppendFeature(features, r.value[1])
                        /\ origin' = AppendFeature(origin, i)
                   ELSE UNCHANGED <<features, origin>>
                /\ nodes' = [k \in DOMAIN nodes \ used |-> nodes[k]]
                /\ i' = i + 1
                /\ UNCHANGED <<pc, exception>>
    /\ UNCHANGED <<call, response, osm_data, returned, elem, index, outcome>>
    /\ UNCHANGED others

\* one loop only: an element is converted against the index of the points
\* that stand before it
ConvertStep_single_pass ==
    /\ pc = "convert"
    /\ i <= Len(Elements(osm_data))
    /\ LET es == Elements(osm_data)
           before == {id \in DOMAIN nodes :
                        \E m \in 1..(i - 1) : es[m].type = "node" /\ es[m].id = Some(id)}
           r == ConvertElement(es[i], [id \in before |-> nodes[id]])
       IN  IF r.exc # ""
           THEN /\ Raise(r.exc, "geometry")
                /\ UNCHANGED <<i, features, origin>>
           ELSE /\ IF r.value # None
                   THEN /\ features' = AppendFeature(features, r.value[1])
                        /\ origin' = AppendFeature(origin, i)
                   ELSE UNCHANGED <<features, origin>>
                /\ i' = i + 1
                /\ UNCHANGED <<pc, exception>>
    /\ UNCHANGED <<call, response, osm_data, nodes, returned, elem, index, outcome>>
    /\ UNCHANGED others

\* one iteration of the second loop
ConvertStep ==
    /\ pc = "convert"
    /\ i <= Len(Elements(osm_data))
    /\ LET r == ConvertElement(Elements(osm_data)[i], nodes)
       IN  IF r.exc # ""
           THEN /\ Raise(r.exc, "geometry")
                /\ UNCHANGED <<i, features, origin>>
           ELSE /\ IF r.value # None
                   THEN /\ features' = AppendFeature(features, r.value[1])
                        /\ origin' = AppendFeature(origin, i)
                   ELSE UNCHANGED <<features, origin>>
                /\ i' = i + 1
                /\ UNCHANGED <<pc, exception>>
    /\ UNCHANGED <<call, response, osm_data, nodes, returned, elem, index, outcome>>
    /\ UNCHANGED others

\* return {"type": "FeatureCollection", "features": features}; under
\* fetch_osm_geojson the collection is then returned as its JSON text
ConvertReturn ==
    /\ pc = "convert"
    /\ i > Len(Elements(osm_data))
    /\ pc' = "returned"
    /\ returned' = Some([type |-> "FeatureCollection", features |-> features])
    /\ UNCHANGED <<call, response, osm_data, i, nodes, features, origin,
                   exception, elem, index, outcome>>
    /\ UNCHANGED others

Next ==
    \/ FetchPost
    \/ FetchJson
    \/ FetchCheck
    \/ IndexStep
    \/ IndexDone
    \/ ConvertStep
    \/ ConvertReturn

Spec == Init /\ [][Next]_vars

-----------------------------------------------------------------------------
(* SpecElem: one call of a converter *)

TagPool ==
    { EmptyDict,
      {<<"area", "yes">>},
      {<<"area", "no">>},
      {<<"area", "true">>},
      {<<"building", "yes">>},
      {<<"building", "no">>},
      {<<"landuse", "grass">>},
      {<<"natural", "water">>},
      {<<"leisure", "park">>},
      {<<"amenity", "cafe">>},
      {<<"highway", "residential">>},
      {<<"area", "no">>, <<"building", "yes">>},
      {<<"area", "yes">>, <<"highway", "residential">>} }

\* lat / lon of a point element
NodeValues == {None, Some(0), Some(1)}

NodeInputs ==
    {Node(id, lat, lon, tags) :
        id \in {None, Some(1)}, lat \in NodeValues, lon \in NodeValues,
        tags \in TagPool}

\* entries of an embedded geometry
Entries == {P(0, 0), P(0, 1), P(1, 0), NullEntry, NoLonEntry}

Geometries == UNION {[1..n -> Entries] : n \in 0..MaxPath}

\* point identifiers a path may reference
Ids == {1, 2, 3}

RefLists == UNION {[1..n -> Ids] : n \in 0..MaxPath}

IndexCoords ==
    {[lat |-> Some(0), lon |-> Some(1)], [lat |-> Some(1), lon |-> Some(0)]}

\* node indexes: any subset of Ids indexed, and one with a missing latitude
Indexes ==
    UNION {[S -> IndexCoords] : S \in SUBSET Ids}
    \cup {PutNode(PutNode(<<>>, 1, None, Some(1)), 2, Some(1), Some(0))}

\* paths with embedded geometry only, with references only, with both, with neither
WayInputs ==
    {Way(Some(7), Some(g), None, tags) : g \in Geometries, tags \in TagPool}
    \cup {Way(Some(8), None, Some(refs), tags) : refs \in RefLists, tags \in TagPool}
    \cup {Way(Some(9), Some(g), Some(refs), EmptyDict) :
            g \in {<<>>, <<P(0, 1)>>, <<P(0, 1), P(1, 0)>>},
            refs \in {<<1, 2>>, <<1, 2, 2, 1>>}}
    \cup {Way(None, None, None, tags) : tags \in TagPool}

InitElem ==
    /\ elem \in NodeInputs \cup WayInputs
    /\ index \in IF elem.type = "way" /\ elem.nodes # None THEN Indexes ELSE {<<>>}
    /\ outcome = IdleOutcome
    /\ call = "converter"
    /\ response = "ok"
    /\ osm_data = NoPayload
    /\ pc = "call"
    /\ i = 1
    /\ nodes = <<>>
    /\ features = <<>>
    /\ origin = <<>>
    /\ exception = None
    /\ returned = None
    /\ calls = Unused
    /\ llm = Unused
    /\ send = Unused
    /\ plugin = Unused

\* feature = convert_node_to_feature(element)
CallNode ==
    /\ pc = "call"
    /\ elem.type = "node"
    /\ outcome' = [done |-> TRUE, exc |-> "", coordinates |-> <<>>,
                   value |-> convert_node_to_feature(elem)]
    /\ pc' = "called"
    /\ UNCHANGED <<call, response, osm_data, i, nodes, features, origin,
                   exception, returned, elem, index>>
    /\ UNCHANGED others

\* feature = convert_way_to_feature(element, nodes)
CallWay ==
    /\ pc = "call"
    /\ elem.type = "way"
    /\ outcome' = [done        |-> TRUE,
                   exc         |-> convert_way_to_feature(elem, index).exc,
                   coordinates |-> convert_way_to_feature(elem, index).coordinates,
                   value       |-> convert_way_to_feature(elem, index).value]
    /\ pc' = "called"
    /\ UNCHANGED <<call, response, osm_data, i, nodes, features, origin,
                   exception, returned, elem, index>>
    /\ UNCHANGED others

NextElem == CallNode \/ CallWay

SpecElem == InitElem /\ [][NextElem]_vars

-----------------------------------------------------------------------------
(* Claims checked under Spec *)

\* the call has returned a feature collection
Success == pc = "returned" /\ returned # None

C2_NeverFailsOnAnElement ==
    (call = Convert /\ osm_data.has_elements) => pc # "raised"

\* the element list the conversion iterates
ElementList == Elements(osm_data)

\* positions of the elements a feature was built from
Converted == {origin[k] : k \in DOMAIN origin}

\* the second loop is past position k
Passed(k) == (pc = "convert" /\ k < i) \/ pc = "returned"

\* C6: the features are in the order of their source elements, whatever the
\* kinds: a feature of an earlier element precedes a feature of a later one,
\* each feature is the one its element converts to, and the returned
\* collection holds exactly the features of the elements that yield one.
C6_FeaturesInElementOrder ==
    /\ Len(origin) = Len(features)
    /\ \A a, b \in DOMAIN origin : a < b => origin[a] < origin[b]
    /\ \A k \in DOMAIN features :
          /\ origin[k] \in DOMAIN ElementList
          /\ ConvertElement(ElementList[origin[k]], nodes).value = Some(features[k])
    /\ Success =>
          /\ returned[1].features = features
          /\ Converted = {k \in DOMAIN ElementList :
                            ConvertElement(ElementList[k], nodes).value # None}

\* [point A, path B, point C] has given [Point(A), feature(B), Point(C)]
C6_Witness ==
    /\ Success
    /\ Len(returned[1].features) = 3
    /\ origin = <<1, 2, 3>>
    /\ ElementList[1].type = "node"
    /\ ElementList[2].type = "way"
    /\ ElementList[3].type = "node"

OtherKind(element) == element.type \notin {"node", "way"}

\* C9: an element that is neither a node nor a way gives no feature and
\* raises nothing, and a payload of such elements only gives a collection
\* with an empty feature list.
C9_OtherKindsSkipped ==
    osm_data.has_elements =>
        /\ \A k \in Converted : ~OtherKind(ElementList[k])
        /\ (pc = "raised" /\ i \in DOMAIN ElementList) => ~OtherKind(ElementList[i])
        /\ (\A k \in DOMAIN ElementList : OtherKind(ElementList[k])) =>
              /\ pc # "raised"
              /\ features = <<>>
              /\ Success => returned[1].features = <<>>

C9_Witness ==
    /\ Success
    /\ Len(ElementList) >= 2
    /\ \A k \in DOMAIN ElementList : OtherKind(ElementList[k])
    /\ \E k \in DOMAIN ElementList : ElementList[k].type = "relation"
    /\ returned[1].features = <<>>

\* C10: a point element the second loop has passed has a Point feature iff
\* its latitude and longitude are both present, 0 included; a missing
\* coordinate is never what stops the conversion.
C10_PointIffBothCoordinates ==
    \A k \in DOMAIN ElementList :
        ElementList[k].type = "node" =>
            /\ Passed(k) =>
                  /\ k \in Converted <=>
                        (ElementList[k].lat # None /\ ElementList[k].lon # None)
                  /\ \A j \in DOMAIN origin :
                        origin[j] = k => features[j].geometry.type = "Point"
            /\ (pc = "raised" /\ i = k) => ElementList[k].id = None

\* a point without latitude was skipped, a point at latitude 0 after it converted
C10_Witness ==
    /\ Success
    /\ \E k, m \in DOMAIN ElementList :
          /\ k < m
          /\ ElementList[k].type = "node"
          /\ ElementList[k].lat = None
          /\ k \notin Converted
          /\ ElementList[m].type = "node"
          /\ ElementList[m].lat = Some(0)
          /\ m \in Converted

-----------------------------------------------------------------------------
(* Claims checked under SpecElem *)

\* the converter was called on a path and returned
WayReturned == outcome.done /\ elem.type = "way" /\ outcome.exc = ""

\* the coordinate pairs of a LineString or Polygon feature
PairsOf(feature) ==
    IF feature.geometry.type = "Polygon"
    THEN feature.geometry.coordinates[1]
    ELSE feature.geometry.coordinates

\* C3: a path with at least 2 resolved coordinates gives a Polygon iff it is
\* closed (at least 4 pairs, first equal to last) and its tags have area=yes
\* or one of the keys building, landuse, natural, leisure, amenity; otherwise
\* it gives a LineString holding the coordinate sequence itself.
C3_PolygonIffClosedAndArea ==
    (WayReturned /\ Len(outcome.coordinates) >= 2) =>
        LET c == outcome.coordinates
            closed == Len(c) >= 4 /\ c[1] = c[Len(c)]
            tagged == \/ <<"area", "yes">> \in elem.tags
                      \/ \E item \in elem.tags :
                            item[1] \in {"building", "landuse", "natural",
                                         "leisure", "amenity"}
        IN  /\ outcome.value # None
            /\ IF closed /\ tagged
               THEN outcome.value[1].geometry.type = "Polygon"
               ELSE /\ outcome.value[1].geometry.type = "LineString"
                    /\ outcome.value[1].geometry.coordinates = c

\* a closed path tagged area=yes only has given a Polygon
C3_Witness ==
    /\ WayReturned
    /\ elem.tags = {<<"area", "yes">>}
    /\ Len(outcome.coordinates) = 4
    /\ outcome.value # None
    /\ outcome.value[1].geometry.type = "Polygon"

\* C4: a Polygon has exactly one ring, of at least 4 pairs, the first equal
\* to the last; a path of 3 coordinates is never a Polygon.
C4_PolygonIsOneClosedRing ==
    (outcome.done /\ outcome.value # None) =>
        LET g == outcome.value[1].geometry
        IN  /\ g.type = "Polygon" =>
                  /\ Len(g.coordinates) = 1
                  /\ Len(g.coordinates[1]) >= 4
                  /\ g.coordinates[1][1] = g.coordinates[1][Len(g.coordinates[1])]
            /\ Len(outcome.coordinates) = 3 => g.type # "Polygon"

\* 3 coordinates, first equal to last, tagged building: a LineString
C4_Witness ==
    /\ WayReturned
    /\ Len(outcome.coordinates) = 3
    /\ outcome.coordinates[1] = outcome.coordinates[3]
    /\ \E item \in elem.tags : item[1] = "building"
    /\ outcome.value # None
    /\ outcome.value[1].geometry.type = "LineString"

\* the references of the path that the index holds, in reference order
Kept == LET Indexed(id) == id \in DOMAIN index
        IN  SelectSeq(elem.nodes[1], Indexed)

\* C5: a Point has the coordinates [lon, lat] of its element, and every pair
\* of a path feature is [lon, lat] of the embedded entry, or of the indexed
\* point, at the same position.
C5_LonBeforeLat ==
    (outcome.done /\ outcome.value # None) =>
        IF elem.type = "node"
        THEN /\ outcome.value[1].geometry.type = "Point"
             /\ outcome.value[1].geometry.coordinates[1] = elem.lon
             /\ outcome.value[1].geometry.coordinates[2] = elem.lat
        ELSE LET pairs == PairsOf(outcome.value[1])
             IN  IF elem.geometry # None
                 THEN /\ Len(pairs) = Len(elem.geometry[1])
                      /\ \A k \in DOMAIN pairs :
                            /\ pairs[k][1] = elem.geometry[1][k].lon
                            /\ pairs[k][2] = elem.geometry[1][k].lat
                 ELSE /\ Len(pairs) = Len(Kept)
                      /\ \A k \in DOMAIN pairs :
                            /\ pairs[k][1] = index[Kept[k]].lon
                            /\ pairs[k][2] = index[Kept[k]].lat

\* a point at latitude 0, longitude 1 has given the pair [1, 0]
C5_Witness ==
    /\ outcome.done
    /\ elem.type = "node"
    /\ elem.lat = Some(0)
    /\ elem.lon = Some(1)
    /\ outcome.value # None
    /\ outcome.value[1].geometry.coordinates = <<Some(1), Some(0)>>

\* C7: without embedded geometry the coordinates are those of the referenced
\* identifiers the index holds, in reference order, nothing standing in for
\* an absent identifier, and no exception.
C7_ReferencesRestrictedToIndex ==
    (outcome.done /\ elem.type = "way" /\ elem.geometry = None /\ elem.nodes # None) =>
        /\ outcome.exc = ""
        /\ Len(outcome.coordinates) = Len(Kept)
        /\ \A k \in DOMAIN Kept :
              outcome.coordinates[k] = <<index[Kept[k]].lon, index[Kept[k]].lat>>
        /\ Len(Kept) >= 2 =>
              /\ outcome.value # None
              /\ PairsOf(outcome.value[1]) = outcome.coordinates

\* references [1, 2, 3] with 1 and 3 indexed have given a line of 2 points
C7_Witness ==
    /\ WayReturned
    /\ elem.geometry = None
    /\ elem.nodes = Some(<<1, 2, 3>>)
    /\ DOMAIN index = {1, 3}
    /\ outcome.value # None
    /\ outcome.value[1].geometry.type = "LineString"
    /\ Len(outcome.value[1].geometry.coordinates) = 2

\* C8: a path with fewer than 2 resolved coordinates, one without geometry
\* and references included, gives no feature; a LineString has at least 2
\* pairs.
C8_ShortPathGivesNoFeature ==
    (outcome.done /\ elem.type = "way") =>
        /\ Len(outcome.coordinates) < 2 => outcome.value = None
        /\ (elem.geometry = None /\ elem.nodes = None) => outcome.value = None
        /\ (elem.geometry # None /\ Len(elem.geometry[1]) < 2) => outcome.value = None
        /\ (elem.geometry = None /\ elem.nodes # None /\ Len(Kept) < 2) =>
              outcome.value = None
        /\ (outcome.value # None /\ outcome.value[1].geometry.type = "LineString") =>
              Len(outcome.value[1].geometry.coordinates) >= 2

\* a path resolving to a single coordinate has given no feature
C8_Witness ==
    /\ WayReturned
    /\ Len(outcome.coordinates) = 1
    /\ outcome.value = None

-----------------------------------------------------------------------------
(* Further claims checked under SpecElem *)

\* C11: a path that carries embedded geometry takes its coordinates from the
\* embedded pairs alone, the references and the index unread: an embedded
\* list shorter than 2 gives no feature even when the references resolve.
\* Only a path without embedded geometry takes them from its references.
C11_EmbeddedGeometryFirst ==
    (outcome.done /\ elem.type = "way") =>
        /\ (elem.geometry # None /\ outcome.exc = "") =>
              /\ Len(outcome.coordinates) = Len(elem.geometry[1])
              /\ \A k \in DOMAIN outcome.coordinates :
                    outcome.coordinates[k] =
                        <<elem.geometry[1][k].lon, elem.geometry[1][k].lat>>
              /\ Len(elem.geometry[1]) < 2 => outcome.value = None
        /\ (elem.geometry # None /\ outcome.exc # "") => outcome.value = None
        /\ (elem.geometry = None /\ elem.nodes # None) =>
              Len(outcome.coordinates) = Len(Kept)

\* an empty embedded list with references [1, 2] both indexed: no feature
C11_Witness ==
    /\ WayReturned
    /\ elem.geometry = Some(<<>>)
    /\ elem.nodes = Some(<<1, 2>>)
    /\ {1, 2} \subseteq DOMAIN index
    /\ outcome.value = None

\* C13: the properties of a feature are the tag mapping of its element,
\* nothing added, removed or renamed, and the empty mapping for an element
\* without tags.
C13_PropertiesAreTheTags ==
    (outcome.done /\ outcome.value # None) =>
        outcome.value[1].properties = elem.tags

\* a Polygon carrying both of its element's tags
C13_Witness ==
    /\ WayReturned
    /\ elem.tags = {<<"area", "no">>, <<"building", "yes">>}
    /\ outcome.value # None
    /\ outcome.value[1].geometry.type = "Polygon"
    /\ outcome.value[1].properties = {<<"area", "no">>, <<"building", "yes">>}

-----------------------------------------------------------------------------
(* Further claims checked under Spec *)

\* positions up to n of the point elements with identifier id
NodePositions(id, n) ==
    {k \in 1..n : ElementList[k].type = "node" /\ ElementList[k].id = Some(id)}

\* the last of them
LastPosition(id, n) ==
    CHOOSE k \in NodePositions(id, n) : \A m \in NodePositions(id, n) : m <= k

\* how far the first loop has come
Indexed ==
    IF pc = "index" THEN i - 1
    ELSE IF pc \in {"convert", "returned"} THEN Len(ElementList)
    ELSE 0

\* the references of the path at position p that the full index holds
KeptAt(p) ==
    LET Known(id) == NodePositions(id, Len(ElementList)) # {}
    IN  SelectSeq(ElementList[p].nodes[1], Known)

\* C12: the index holds, for each identifier, the coordinates of the last
\* point element with that identifier, and a path feature built from
\* references has the coordinates of those last occurrences.
C12_LastOccurrenceWins ==
    /\ pc \in {"index", "convert", "returned"} =>
          /\ DOMAIN nodes = {id \in {1, 2, 3} : NodePositions(id, Indexed) # {}}
          /\ \A id \in DOMAIN nodes :
                /\ nodes[id].lat = ElementList[LastPosition(id, Indexed)].lat
                /\ nodes[id].lon = ElementList[LastPosition(id, Indexed)].lon
    /\ \A k \in DOMAIN features :
          LET p == origin[k]
          IN  (ElementList[p].type = "way" /\ ElementList[p].geometry = None) =>
                  /\ Len(PairsOf(features[k])) = Len(KeptAt(p))
                  /\ \A j \in DOMAIN KeptAt(p) :
                        LET last == LastPosition(KeptAt(p)[j], Len(ElementList))
                        IN  PairsOf(features[k])[j] =
                                <<ElementList[last].lon, ElementList[last].lat>>

\* two points with identifier 1 and different coordinates, then a path
\* referencing 1 that gave a feature
C12_Witness ==
    /\ Success
    /\ Len(ElementList) = 3
    /\ ElementList[1].type = "node" /\ ElementList[1].id = Some(1)
    /\ ElementList[2].type = "node" /\ ElementList[2].id = Some(1)
    /\ ElementList[1].lat # ElementList[2].lat
    /\ ElementList[3].type = "way" /\ ElementList[3].geometry = None
    /\ origin = <<1, 2, 3>>

\* C14: no step of the second loop changes the node index.
C14_IndexFrozenInSecondLoop ==
    [][pc = "convert" => nodes' = nodes]_vars

\* a conversion that resolved a path through a non-empty index has returned
C14_Witness ==
    /\ Success
    /\ DOMAIN nodes # {}
    /\ \E k \in DOMAIN origin :
          /\ ElementList[origin[k]].type = "way"
          /\ ElementList[origin[k]].geometry = None

\* the element raises in one of the loops
Malformed(element) ==
    \/ element.type = "node" /\ element.id = None
    \/ /\ element.type = "way"
       /\ element.geometry # None
       /\ \E k \in DOMAIN element.geometry[1] : element.geometry[1][k].kind # "pair"

\* C18: whatever fails in fetch_osm_geojson (the request, the JSON parse, a
\* missing element list, an exception of the conversion), it returns nothing
\* and what leaves it is a RuntimeError whose message holds the cause.
C18_FetchFailsWithRuntimeError ==
    call = Fetch =>
        /\ pc = "raised" =>
              /\ exception # None
              /\ exception[1].type = "RuntimeError"
              /\ \E k \in DOMAIN exception[1].message :
                    exception[1].message[k] = exception[1].cause
              /\ returned = None
        /\ (\/ response # "ok"
            \/ ~osm_data.has_elements
            \/ \E k \in DOMAIN ElementList : Malformed(ElementList[k])) =>
              /\ pc # "returned"
              /\ returned = None

\* an exception of the conversion has left the fetch
C18_Witness ==
    /\ call = Fetch
    /\ pc = "raised"
    /\ exception # None
    /\ exception[1].cause = "geometry"
    /\ exception[1].type = "RuntimeError"

-----------------------------------------------------------------------------
(* SpecPair: two calls of convert_overpass_to_geojson, their steps interleaved *)

\* longest element list of a payload in SpecPair
MaxPairElems == 2

CallIds == {"A", "B"}

PairPool ==
    { Node(Some(1), Some(0), Some(1), EmptyDict),
      Node(Some(1), Some(1), Some(1), EmptyDict),
      Node(None, Some(0), Some(1), EmptyDict),
      Way(Some(8), None, Some(<<1, 1>>), {<<"highway", "residential">>}) }

PairPayloads ==
    {[has_elements |-> TRUE, elements |-> es] :
        es \in UNION {[1..n -> PairPool] : n \in 0..MaxPairElems}}

\* the locals of a call at its first statement: features = [], nodes = {}
Frame(payload) ==
    [osm_data |-> payload, pc |-> "index", i |-> 1, nodes |-> <<>>,
     features |-> <<>>, exception |-> None, returned |-> None]

\* the next statement of a call with locals f: the first loop, then the
\* second, then the return
frame_step(f) ==
    LET es == Elements(f.osm_data)
    IN  IF f.pc = "index"
        THEN IF f.i > Len(es)
             THEN [f EXCEPT !.pc = "convert", !.i = 1]
             ELSE IF es[f.i].type # "node"
                  THEN [f EXCEPT !.i = @ + 1]
                  ELSE IF es[f.i].id = None
                       THEN [f EXCEPT !.pc = "raised",
                                      !.exception = Some("KeyError")]
                       ELSE [f EXCEPT !.nodes = PutNode(@, es[f.i].id[1],
                                                        es[f.i].lat, es[f.i].lon),
                                      !.i = @ + 1]
        ELSE IF f.pc = "convert"
        THEN IF f.i > Len(es)
             THEN [f EXCEPT !.pc = "returned",
                            !.returned = Some([type     |-> "FeatureCollection",
                                               features |-> f.features])]
             ELSE LET r == ConvertElement(es[f.i], f.nodes)
                  IN  IF r.exc # ""
                      THEN [f EXCEPT !.pc = "raised", !.exception = Some(r.exc)]
                      ELSE [f EXCEPT !.features = IF r.value # None
                                                  THEN AppendFeature(@, r.value[1])
                                                  ELSE @,
                                     !.i = @ + 1]
        ELSE f

\* nodes as a module-level dict: a write by one call is seen by all
StoreLocals_global_index(cs, c, f) ==
    [d \in DOMAIN cs |-> IF d = c THEN f ELSE [cs[d] EXCEPT !.nodes = f.nodes]]

\* features and nodes are locals of the call: a write reaches them only
StoreLocals(cs, c, f) == [cs EXCEPT ![c] = f]

InitPair ==
    /\ calls \in [CallIds -> {Frame(payload) : payload \in PairPayloads}]
    /\ llm = Unused
    /\ send = Unused
    /\ elem = IdleElem
    /\ index = <<>>
    /\ outcome = IdleOutcome
    /\ call = Convert
    /\ response = "ok"
    /\ osm_data = NoPayload
    /\ pc = "pair"
    /\ i = 1
    /\ nodes = <<>>
    /\ features = <<>>
    /\ origin = <<>>
    /\ exception = None
    /\ returned = None
    /\ plugin = Unused

\* call c executes its next statement
PairStep(c) ==
    /\ calls[c].pc \in {"index", "convert"}
    /\ calls' = StoreLocals(calls, c, frame_step(calls[c]))
    /\ UNCHANGED <<coreVars, plugin, llm, send>>

NextPair == \E c \in CallIds : PairStep(c)

SpecPair == InitPair /\ [][NextPair]_vars

\* the locals of a call on payload run alone to its end
RECURSIVE RunFrom(_)
RunFrom(f) == IF f.pc \in {"index", "convert"} THEN RunFrom(frame_step(f)) ELSE f

RunAlone(payload) == RunFrom(Frame(payload))

\* two optional feature collections are the same, feature by feature
SameCollection(a, b) ==
    /\ (a = None) = (b = None)
    /\ a # None =>
          /\ Len(a[1].features) = Len(b[1].features)
          /\ \A k \in DOMAIN a[1].features :
                /\ k \in DOMAIN b[1].features
                /\ a[1].features[k].id = b[1].features[k].id
                /\ a[1].features[k].geometry.type = b[1].features[k].geometry.type
                /\ a[1].features[k] = b[1].features[k]

\* C15: two conversions whose steps are interleaved in any order each end as
\* they end when run alone: the same feature collection returned, or the
\* same exception raised.
C15_ConcurrentCallsIndependent ==
    \A c \in CallIds :
        calls[c].pc \in {"returned", "raised"} =>
            /\ calls[c].pc = RunAlone(calls[c].osm_data).pc
            /\ calls[c].exception = RunAlone(calls[c].osm_data).exception
            /\ SameCollection(calls[c].returned,
                              RunAlone(calls[c].osm_data).returned)

\* both calls have returned from different payloads, one with a path
\* resolved through its own index, the other with another non-empty index
C15_Witness ==
    /\ calls["A"].pc = "returned" /\ calls["B"].pc = "returned"
    /\ calls["A"].osm_data # calls["B"].osm_data
    /\ Len(calls["A"].returned[1].features) = 2
    /\ calls["A"].returned[1].features[2].geometry.type = "LineString"
    /\ DOMAIN calls["B"].nodes # {}
    /\ calls["A"].nodes # calls["B"].nodes

-----------------------------------------------------------------------------
(* SpecLlm: one call of call_llm_for_overpass, one step at a time *)

\* "not x" is false of a string x: x is not empty
Truthy(x) == x # ""

\* d[key], the key present
Get(d, key) == (CHOOSE item \in d : item[1] = key)[2]

\* the map extent in WGS84
Extents ==
    [xMinimum : {0, 1}, yMinimum : {0, 3}, xMaximum : {1, 2}, yMaximum : {3, 4}]

\* the tuple get_current_bbox_wgs84 returns
get_current_bbox_wgs84(extent) ==
    <<extent.xMinimum, extent.yMinimum, extent.xMaximum, extent.yMaximum>>

\* the bounding box formatted in the order it was given
bbox_str_unordered(bbox) ==
    <<Str(Some(bbox[1])), ",", Str(Some(bbox[2])), ",",
      Str(Some(bbox[3])), ",", Str(Some(bbox[4]))>>

\* f"{bbox[1]},{bbox[0]},{bbox[3]},{bbox[2]}", the parts of the text in order
\* (a Python tuple is indexed from 0, a sequence from 1)
bbox_str(bbox) ==
    <<Str(Some(bbox[2])), ",", Str(Some(bbox[1])), ",",
      Str(Some(bbox[4])), ",", Str(Some(bbox[3]))>>

\* settings.value(SETTINGS_API_KEY, None); return api_key if api_key else None
load_api_key(saved) == IF saved # None /\ Truthy(saved[1]) THEN saved ELSE None

\* the saved setting first, the environment only without one
ApiKey_settings_first(env, saved) ==
    IF load_api_key(saved) # None
    THEN load_api_key(saved)
    ELSE IF env # None /\ Truthy(env[1]) THEN env ELSE None

\* os.environ.get("OPENAI_API_KEY"), then load_api_key() if that is not set
ApiKey(env, saved) ==
    IF env # None /\ Truthy(env[1]) THEN env ELSE load_api_key(saved)

\* the dicts the model's content may parse to: any mode or none, any subset of
\* the fields, the query empty or not
ModeParts ==
    {{}, {<<"mode", "chat">>}, {<<"mode", "query">>}, {<<"mode", "draw">>}}

QueryParts ==
    {{}, {<<"overpass_query", "">>}, {<<"overpass_query", "node[amenity];out;">>}}

FieldParts ==
    SUBSET {<<"message", "hello">>, <<"description", "cafes">>,
            <<"expected_geometry", "point">>, <<"notes", "none">>}

ParsedDicts ==
    {m \cup q \cup f : m \in ModeParts, q \in QueryParts, f \in FieldParts}

\* the content of the first choice: text that is not JSON, JSON that is not
\* an object, or an object
Contents ==
    {[kind |-> "text", value |-> {}], [kind |-> "number", value |-> {}]}
    \cup {[kind |-> "dict", value |-> d] : d \in ParsedDicts}

\* what the request comes back with; choices None: the body has no "choices"
LlmReplies ==
    {[status |-> st, choices |-> None] : st \in {"request_failed", "not_json", "ok"}}
    \cup {[status |-> "ok", choices |-> Some(<<>>)]}
    \cup {[status |-> "ok", choices |-> Some(<<c>>)] : c \in Contents}

\* only the first two fields required
required_fields_short == <<"description", "overpass_query">>

required_fields == <<"description", "overpass_query", "expected_geometry", "notes">>

\* the validation of the parsed dict: the message of the RuntimeError raised,
\* "" when none is
validate(parsed) ==
    IF ~HasKey(parsed, "mode") THEN "Missing 'mode' field in LLM response"
    ELSE IF Get(parsed, "mode") = "chat"
         THEN IF ~HasKey(parsed, "message")
              THEN "Missing 'message' field in chat mode response"
              ELSE ""
    ELSE IF Get(parsed, "mode") = "query"
         THEN IF \E k \in DOMAIN required_fields : ~HasKey(parsed, required_fields[k])
              THEN "Missing required field in LLM response"
              ELSE IF ~Truthy(Get(parsed, "overpass_query"))
                   THEN "Empty overpass_query in LLM response"
                   ELSE ""
    ELSE "Invalid mode in LLM response"

\* the except clauses of call_llm_for_overpass: what leaves it when e was raised
llm_except(e) == "RuntimeError"

\* an exception raised in the call
LlmRaise(e, text) ==
    llm' = [llm EXCEPT !.pc = "raised",
                       !.exception = Some([type |-> llm_except(e), cause |-> text])]

InitLlm ==
    /\ \E env \in {None, Some(""), Some("env-key")},
          saved \in {None, Some(""), Some("saved-key")},
          extent \in Extents, reply \in LlmReplies :
          llm = [pc |-> "key", env |-> env, saved |-> saved, extent |-> extent,
                 bbox |-> get_current_bbox_wgs84(extent), reply |-> reply,
                 api_key |-> None, sent |-> None, parsed |-> None,
                 exception |-> None, returned |-> None]
    /\ calls = Unused
    /\ send = Unused
    /\ elem = IdleElem
    /\ index = <<>>
    /\ outcome = IdleOutcome
    /\ call = "call_llm_for_overpass"
    /\ response = "ok"
    /\ osm_data = NoPayload
    /\ pc = "llm"
    /\ i = 1
    /\ nodes = <<>>
    /\ features = <<>>
    /\ origin = <<>>
    /\ exception = None
    /\ returned = None
    /\ plugin = Unused

\* the API key: the environment first, then the saved setting, else raise
LlmKey ==
    /\ llm.pc = "key"
    /\ IF ApiKey(llm.env, llm.saved) = None
       THEN llm' = [llm EXCEPT !.pc = "raised",
                               !.exception = Some([type  |-> "RuntimeError",
                                                   cause |-> "OpenAI API key not found"])]
       ELSE llm' = [llm EXCEPT !.pc = "format", !.api_key = ApiKey(llm.env, llm.saved)]
    /\ UNCHANGED <<coreVars, plugin, calls, send>>

\* bbox_str, user_content, payload and headers
LlmFormat ==
    /\ llm.pc = "format"
    /\ llm' = [llm EXCEPT !.pc = "post",
                          !.sent = Some([bbox          |-> bbox_str(llm.bbox),
                                         authorization |-> llm.api_key])]
    /\ UNCHANGED <<coreVars, plugin, calls, send>>

\* requests.post(...), response.raise_for_status(), response.json()
LlmPost ==
    /\ llm.pc = "post"
    /\ IF llm.reply.status = "request_failed"
       THEN LlmRaise("RequestException", "request")
       ELSE IF llm.reply.status = "not_json"
            THEN LlmRaise("JSONDecodeError", "json")
            ELSE llm' = [llm EXCEPT !.pc = "choices"]
    /\ UNCHANGED <<coreVars, plugin, calls, send>>

\* the check on "choices", then content = ...; parsed = json.loads(content);
\* of a parsed number the test "mode" not in parsed raises TypeError
LlmParse ==
    /\ llm.pc = "choices"
    /\ IF llm.reply.choices = None \/ llm.reply.choices = Some(<<>>)
       THEN LlmRaise("RuntimeError", "Invalid response from OpenAI API: no choices")
       ELSE LET content == llm.reply.choices[1][1]
            IN  IF content.kind = "text"
                THEN LlmRaise("RuntimeError", "Failed to parse LLM response as JSON")
                ELSE IF content.kind = "number"
                     THEN LlmRaise("TypeError", "argument of type 'int' is not iterable")
                     ELSE llm' = [llm EXCEPT !.pc = "validate",
                                             !.parsed = Some(content.value)]
    /\ UNCHANGED <<coreVars, plugin, calls, send>>

\* the validation of mode and fields, then return parsed
LlmValidate ==
    /\ llm.pc = "validate"
    /\ IF validate(llm.parsed[1]) # ""
       THEN LlmRaise("RuntimeError", validate(llm.parsed[1]))
       ELSE llm' = [llm EXCEPT !.pc = "returned", !.returned = llm.parsed]
    /\ UNCHANGED <<coreVars, plugin, calls, send>>

NextLlm ==
    \/ LlmKey
    \/ LlmFormat
    \/ LlmPost
    \/ LlmParse
    \/ LlmValidate

SpecLlm == InitLlm /\ [][NextLlm]_vars

\* the reply carries a first choice whose content parses to a dict
ReplyDict == 
    /\ llm.reply.status = "ok"
    /\ llm.reply.choices # None
    /\ llm.reply.choices # Some(<<>>)
    /\ llm.reply.choices[1][1].kind = "dict"

\* a chat reply with a message, or a query reply with its four fields and a
\* query that is not empty
ValidReply(d) ==
    \/ GetEquals(d, "mode", "chat") /\ HasKey(d, "message")
    \/ /\ GetEquals(d, "mode", "query")
       /\ HasKey(d, "description")
       /\ HasKey(d, "overpass_query")
       /\ HasKey(d, "expected_geometry")
       /\ HasKey(d, "notes")
       /\ ~GetEquals(d, "overpass_query", "")

C20_BboxSentSouthWestNorthEast ==
    llm.sent # None =>
        llm.sent[1].bbox =
            <<ToString(llm.extent.yMinimum), ",", ToString(llm.extent.xMinimum), ",",
              ToString(llm.extent.yMaximum), ",", ToString(llm.extent.xMaximum)>>

\* a bounding box of four different bounds was sent and the call returned
C20_Witness ==
    /\ llm.pc = "returned"
    /\ llm.bbox = <<1, 3, 2, 4>>
    /\ llm.sent = Some([bbox          |-> <<"3", ",", "1", ",", "4", ",", "2">>,
                        authorization |-> llm.api_key])

-----------------------------------------------------------------------------
(* SpecSend: on_send_clicked, one step at a time, in two runs that are given
   the same input, the same LLM reply up to its expected_geometry, the same
   Overpass service and the same map canvas *)

Runs == {"one", "two"}

\* the values of expected_geometry
Hints == {"point", "line", "polygon"}

Queries == {"node[amenity];out;", "way[building];out geom;"}

\* the parsed content of the LLM reply without its expected_geometry
ReplyBases ==
    { {<<"mode", "chat">>, <<"message", "hello">>},
      {<<"mode", "query">>, <<"description", "cafes">>, <<"notes", "none">>,
       <<"overpass_query", "node[amenity];out;">>},
      {<<"mode", "query">>, <<"description", "houses">>, <<"notes", "none">>,
       <<"overpass_query", "way[building];out geom;">>},
      {<<"mode", "query">>, <<"description", "cafes">>, <<"notes", "none">>,
       <<"overpass_query", "">>},
      {<<"mode", "query">>, <<"description", "cafes">>,
       <<"overpass_query", "node[amenity];out;">>} }

\* what the Overpass service answers to a query
ServiceResponses ==
    { [response |-> "ok",
       osm_data |-> [has_elements |-> TRUE,
                     elements |-> <<Node(Some(1), Some(0), Some(1),
                                         {<<"amenity", "cafe">>}),
                                    Way(Some(7),
                                        Some(<<P(0, 0), P(0, 1), P(1, 1), P(0, 0)>>),
                                        None, {<<"building", "yes">>})>>]],
      [response |-> "ok",
       osm_data |-> [has_elements |-> TRUE,
                     elements |-> <<Node(Some(1), Some(0), Some(1), EmptyDict),
                                    Node(Some(2), Some(1), Some(0), EmptyDict),
                                    Way(Some(8), None, Some(<<1, 2>>),
                                        {<<"highway", "residential">>})>>]],
      [response |-> "ok",
       osm_data |-> [has_elements |-> TRUE,
                     elements |-> <<Node(None, Some(0), Some(1), EmptyDict)>>]],
      [response |-> "request_failed", osm_data |-> NoPayload] }

\* fetch_osm_geojson on the service's answer: exc the exception that leaves
\* it ("" for none), value the GeoJSON text, held as the collection it encodes
fetch_osm_geojson(answer) ==
    IF answer.response = "request_failed"
    THEN [exc |-> fetch_except("RequestException"), value |-> None]
    ELSE IF answer.response = "not_json"
    THEN [exc |-> fetch_except("JSONDecodeError"), value |-> None]
    ELSE IF ~HasElements(answer.osm_data)
    THEN [exc |-> fetch_except("RuntimeError"), value |-> None]
    ELSE IF RunAlone(answer.osm_data).pc = "raised"
    THEN [exc   |-> fetch_except(RunAlone(answer.osm_data).exception[1]),
          value |-> None]
    ELSE [exc |-> "", value |-> RunAlone(answer.osm_data).returned]

\* call_llm_for_overpass on the reply: exc the exception that leaves it,
\* value the parsed dict returned
call_llm_for_overpass(reply) ==
    IF reply.status # "ok"
    THEN [exc |-> llm_except("RequestException"), value |-> None]
    ELSE IF validate(reply.parsed) # ""
    THEN [exc |-> llm_except("RuntimeError"), value |-> None]
    ELSE [exc |-> "", value |-> Some(reply.parsed)]

\* the query chosen by the expected geometry
FetchQuery_hinted(llm_result) ==
    IF GetEquals(llm_result, "expected_geometry", "polygon")
    THEN "way[building];out geom;"
    ELSE Get(llm_result, "overpass_query")

\* overpass_query = llm_result["overpass_query"]
FetchQuery(llm_result) == Get(llm_result, "overpass_query")

\* the success message; its leading check mark is left out
success_message(description) == <<"Successfully added layer: ", description>>

\* the state of a run before the click
SendStart(input) ==
    [pc |-> "start", input |-> input, history |-> <<>>, thinking_widget |-> FALSE,
     llm_call |-> "", llm_result |-> None, fetch_call |-> "", fetched |-> None,
     geojson_str |-> None, layers |-> <<>>, warning |-> FALSE, error |-> None,
     success |-> FALSE]

InitSend ==
    /\ \E user_message \in {"", "cafes"}, bbox_ok \in BOOLEAN,
          status \in {"ok", "request_failed"}, base \in ReplyBases,
          hint \in [Runs -> Hints], service \in [Queries -> ServiceResponses],
          layer_valid \in BOOLEAN :
          send = [r \in Runs |->
                    SendStart([user_message |-> user_message,
                               bbox_ok      |-> bbox_ok,
                               reply        |->
                                   [status |-> status,
                                    parsed |-> base \cup
                                               {<<"expected_geometry", hint[r]>>}],
                               service      |-> service,
                               layer_valid  |-> layer_valid])]
    /\ calls = Unused
    /\ llm = Unused
    /\ elem = IdleElem
    /\ index = <<>>
    /\ outcome = IdleOutcome
    /\ call = "on_send_clicked"
    /\ response = "ok"
    /\ osm_data = NoPayload
    /\ pc = "send"
    /\ i = 1
    /\ nodes = <<>>
    /\ features = <<>>
    /\ origin = <<>>
    /\ exception = None
    /\ returned = None
    /\ plugin = Unused

\* the click: an empty message is refused, any other is put into the
\* history and the thinking message shown
SendClick(r) ==
    /\ send[r].pc = "start"
    /\ IF ~Truthy(send[r].input.user_message)
       THEN send' = [send EXCEPT ![r].pc = "done", ![r].warning = TRUE]
       ELSE send' = [send EXCEPT
                ![r].pc = "bbox",
                ![r].history = Append(@, [role    |-> "user",
                                          content |-> <<send[r].input.user_message>>]),
                ![r].thinking_widget = TRUE]
    /\ UNCHANGED <<coreVars, plugin, calls, llm>>

\* bbox = get_current_bbox_wgs84()
SendBbox(r) ==
    /\ send[r].pc = "bbox"
    /\ IF send[r].input.bbox_ok
       THEN send' = [send EXCEPT ![r].pc = "llm"]
       ELSE send' = [send EXCEPT ![r].pc = "except"]
    /\ UNCHANGED <<coreVars, plugin, calls, llm>>

\* llm_result = call_llm_for_overpass(...), then the thinking message hidden
SendLlm(r) ==
    /\ send[r].pc = "llm"
    /\ LET result == call_llm_for_overpass(send[r].input.reply)
       IN  IF result.exc # ""
           THEN send' = [send EXCEPT ![r].pc = "except", ![r].llm_call = "raised"]
           ELSE send' = [send EXCEPT ![r].pc = "mode",
                                     ![r].llm_call = "returned",
                                     ![r].llm_result = result.value,
                                     ![r].thinking_widget = FALSE]
    /\ UNCHANGED <<coreVars, plugin, calls, llm>>

\* the branch on mode: a chat message is put into the history; a query is
\* announced in the history
SendMode(r) ==
    /\ send[r].pc = "mode"
    /\ LET llm_result == send[r].llm_result[1]
       IN  IF GetEquals(llm_result, "mode", "chat")
           THEN send' = [send EXCEPT
                    ![r].pc = "done",
                    ![r].history = Append(@, [role    |-> "assistant",
                                              content |-> <<Get(llm_result, "message")>>])]
           ELSE IF GetEquals(llm_result, "mode", "query")
           THEN send' = [send EXCEPT
                    ![r].pc = "fetch",
                    ![r].history = Append(@, [role    |-> "assistant",
                                              content |-> <<"Executing query: ",
                                                            Get(llm_result, "description")>>])]
           ELSE send' = [send EXCEPT ![r].pc = "done"]
    /\ UNCHANGED <<coreVars, plugin, calls, llm>>

\* geojson_str = fetch_osm_geojson(overpass_query)
SendFetch(r) ==
    /\ send[r].pc = "fetch"
    /\ LET overpass_query == FetchQuery(send[r].llm_result[1])
           result == fetch_osm_geojson(send[r].input.service[overpass_query])
       IN  IF result.exc # ""
           THEN send' = [send EXCEPT ![r].pc = "except",
                                     ![r].fetch_call = "raised",
                                     ![r].fetched = Some(overpass_query)]
           ELSE send' = [send EXCEPT ![r].pc = "layer",
                                     ![r].fetch_call = "returned",
                                     ![r].fetched = Some(overpass_query),
                                     ![r].geojson_str = result.value]
    /\ UNCHANGED <<coreVars, plugin, calls, llm>>

\* add_geojson_layer(geojson_str, description), then the success message
SendLayer(r) ==
    /\ send[r].pc = "layer"
    /\ LET description == Get(send[r].llm_result[1], "description")
       IN  IF ~send[r].input.layer_valid
           THEN send' = [send EXCEPT ![r].pc = "except"]
           ELSE send' = [send EXCEPT
                    ![r].pc = "done",
                    ![r].layers = Append(@, [name    |-> description,
                                             geojson |-> send[r].geojson_str]),
                    ![r].history = Append(@, [role    |-> "assistant",
                                              content |-> success_message(description)]),
                    ![r].success = TRUE]
    /\ UNCHANGED <<coreVars, plugin, calls, llm>>

\* an except clause that passes
SendExcept_pass(r) ==
    /\ send[r].pc = "except"
    /\ send' = [send EXCEPT ![r].pc = "done", ![r].thinking_widget = FALSE]
    /\ UNCHANGED <<coreVars, plugin, calls, llm>>

\* the except clauses: the thinking message hidden, the error shown
SendExcept(r) ==
    /\ send[r].pc = "except"
    /\ send' = [send EXCEPT ![r].pc = "done",
                            ![r].thinking_widget = FALSE,
                            ![r].error = Some("Error")]
    /\ UNCHANGED <<coreVars, plugin, calls, llm>>

NextSend ==
    \E r \in Runs :
        \/ SendClick(r)
        \/ SendBbox(r)
        \/ SendLlm(r)
        \/ SendMode(r)
        \/ SendFetch(r)
        \/ SendLayer(r)
        \/ SendExcept(r)

SpecSend == InitSend /\ [][NextSend]_vars

\* the history of the run holds a success message
SuccessRecorded(r) ==
    \E k \in DOMAIN send[r].history :
        /\ send[r].history[k].role = "assistant"
        /\ send[r].history[k].content[1] = "Successfully added layer: "

\* C19: a run adds a layer and records the success message only after its
\* LLM call and its fetch have both returned; a run in which one of them
\* raised ends with an error shown, no layer and no success message.
C19_LayerOnlyAfterBothCallsReturned ==
    \A r \in Runs :
        /\ (send[r].layers # <<>> \/ SuccessRecorded(r) \/ send[r].success) =>
              /\ send[r].llm_call = "returned"
              /\ send[r].fetch_call = "returned"
              /\ Len(send[r].layers) = 1
              /\ SuccessRecorded(r)
        /\ (send[r].pc = "done"
               /\ (send[r].llm_call = "raised" \/ send[r].fetch_call = "raised")) =>
              /\ send[r].error # None
              /\ send[r].layers = <<>>
              /\ ~SuccessRecorded(r)
              /\ ~send[r].success

\* a run whose LLM call returned a query and whose fetch raised has ended
C19_Witness ==
    /\ send["one"].pc = "done"
    /\ send["one"].llm_call = "returned"
    /\ send["one"].fetch_call = "raised"
    /\ send["one"].error # None
    /\ send["two"].pc = "done"
    /\ send["two"].layers = <<>>

\* C16: two runs that differ in expected_geometry only pass the same query
\* to the fetch and get the same feature collection, with the same geometry
\* types, into the same layer.
C16_HintHasNoInfluence ==
    \A r1, r2 \in Runs :
        /\ (send[r1].fetched # None /\ send[r2].fetched # None) =>
              send[r1].fetched = send[r2].fetched
        /\ (send[r1].fetch_call # "" /\ send[r2].fetch_call # "") =>
              /\ send[r1].fetch_call = send[r2].fetch_call
              /\ SameCollection(send[r1].geojson_str, send[r2].geojson_str)
        /\ (send[r1].pc = "done" /\ send[r2].pc = "done") =>
              /\ Len(send[r1].layers) = Len(send[r2].layers)
              /\ send[r1].history = send[r2].history
              /\ send[r1].error = send[r2].error
              /\ (send[r1].fetched = None) = (send[r2].fetched = None)

\* both runs have added their layer of a point and a polygon, one told to
\* expect points, the other polygons
C16_Witness ==
    /\ send["one"].pc = "done" /\ send["two"].pc = "done"
    /\ send["one"].geojson_str # None /\ send["two"].geojson_str # None
    /\ GetEquals(send["one"].llm_result[1], "expected_geometry", "point")
    /\ GetEquals(send["two"].llm_result[1], "expected_geometry", "polygon")
    /\ Len(send["one"].layers) = 1 /\ Len(send["two"].layers) = 1
    /\ Len(send["one"].geojson_str[1].features) = 2
    /\ send["one"].geojson_str[1].features[2].geometry.type = "Polygon"
    /\ send["two"].geojson_str[1].features[2].geometry.type = "Polygon"

-----------------------------------------------------------------------------
(* Further claims on the conversion, checked under Spec *)

\* the point and path elements among the first n of the payload
PointsAndPaths(n) == {k \in 1..n : ElementList[k].type \in {"node", "way"}}

\* C21: no element gives more than one feature, so there are never more
\* features than point and path elements, and a feature's id is "node/<id>"
\* or "way/<id>" with the identifier of the element it was built from.
C21_AtMostOneFeaturePerElement ==
    /\ \A k, m \in DOMAIN origin : k < m => origin[k] < origin[m]
    /\ \A k \in DOMAIN origin : origin[k] \in PointsAndPaths(Len(ElementList))
    /\ Len(features) <= Cardinality(PointsAndPaths(Len(ElementList)))
    /\ (pc = "convert" /\ i <= Len(ElementList)) =>
          Len(features) <= Cardinality(PointsAndPaths(i - 1))
    /\ \A k \in DOMAIN features :
          features[k].id =
              ElementList[origin[k]].type \o "/" \o Str(ElementList[origin[k]].id)

\* three elements gave two features: a point, a point without latitude, a
\* path
C21_Witness ==
    /\ Success
    /\ Len(ElementList) = 3
    /\ origin = <<1, 3>>
    /\ features[1].id = "node/1"
    /\ features[2].id = "way/8"
    /\ ElementList[2].type = "node"

\* the payload with its point elements moved to the front
PointsFirst(es) ==
    LET IsPoint(e) == e.type = "node"
        NoPoint(e) == e.type # "node"
    IN  SelectSeq(es, IsPoint) \o SelectSeq(es, NoPoint)

\* the features built from paths
PathFeatures(fs) ==
    LET IsPath(f) == f.geometry.type # "Point"
    IN  SelectSeq(fs, IsPath)

\* all point identifiers of the payload
PointIds ==
    {id \in {1, 2, 3} : NodePositions(id, Len(ElementList)) # {}}

\* C22: the index is complete when the first element is converted, and the
\* path features of a payload are those of the same payload with its points
\* moved in front of its paths.
C22_IndexCompleteBeforeConversion ==
    /\ (pc = "convert" \/ features # <<>>) => DOMAIN nodes = PointIds
    /\ Success =>
          LET first == RunAlone([has_elements |-> TRUE,
                                 elements     |-> PointsFirst(ElementList)])
          IN  /\ first.pc = "returned"
              /\ SameCollection(
                    Some([features |-> PathFeatures(features)]),
                    Some([features |-> PathFeatures(first.returned[1].features)]))

\* a path that stands before the two points it references gave a feature
C22_Witness ==
    /\ Success
    /\ Len(ElementList) = 3
    /\ ElementList[1].type = "way" /\ ElementList[1].geometry = None
    /\ ElementList[2].type = "node" /\ ElementList[3].type = "node"
    /\ Len(origin) >= 1 /\ origin[1] = 1
    /\ Len(PairsOf(features[1])) >= 2

\* C25 as stated: no pair of an emitted LineString or Polygon has a missing
\* longitude or latitude.
C25_NoMissingValueInPathOutput ==
    \A k \in DOMAIN features :
        features[k].geometry.type \in {"LineString", "Polygon"} =>
            \A j \in DOMAIN PairsOf(features[k]) :
                /\ PairsOf(features[k])[j][1] # None
                /\ PairsOf(features[k])[j][2] # None

-----------------------------------------------------------------------------
(* Further claims on call_llm_for_overpass, checked under SpecLlm *)

\* C23: the key used is the environment's when that is set and not empty,
\* else the saved one; with neither the call raises RuntimeError before
\* anything is prepared or posted.
C23_ApiKeyFromEnvironmentThenSettings ==
    LET env_set == llm.env # None /\ llm.env # Some("")
        saved_set == llm.saved # None /\ llm.saved # Some("")
    IN  /\ llm.pc # "key" =>
              /\ env_set => llm.api_key = llm.env
              /\ (~env_set /\ saved_set) => llm.api_key = llm.saved
              /\ (~env_set /\ ~saved_set) =>
                    /\ llm.pc = "raised"
                    /\ llm.exception[1].type = "RuntimeError"
                    /\ llm.api_key = None
                    /\ llm.sent = None
        /\ llm.sent # None =>
              /\ llm.api_key # None
              /\ llm.sent[1].authorization = llm.api_key

\* with an empty environment variable the saved key was sent
C23_Witness ==
    /\ llm.env = Some("")
    /\ llm.saved = Some("saved-key")
    /\ llm.sent # None
    /\ llm.sent[1].authorization = Some("saved-key")
    /\ llm.pc = "returned"

-----------------------------------------------------------------------------
(* SpecTabs: the plugin object.  A value g of the record below is the state
   of the object and of its widgets; the methods are operators from g to the
   g they leave.  Positions in the tab widget count from 1 (Qt counts from 0)
   and 0 is "no tab" (Qt's -1).

     chat_tabs          tab id -> history, a sequence of [role, content]
     current_tab_index  the tab id the plugin takes as current
     next_tab_id
     chatTabs           the tab widget: the tab ids in tab order ("Chat <id>"
                        is the tab text) and the position of the current tab
     messageLayout      the widgets in the message area, in order
     thinking_widget, thinking_timer
                        None or the number of the thinking widget / timer
     widgets            thinking widgets created so far, one by each send
                        that went past the input check
     stack              the running calls of on_send_clicked, innermost last,
                        each stopped in one of its processEvents calls
     replies            history: for each reply appended to a history, whether
                        chat_tabs held the tab of the send and whether it
                        was the current tab at that moment *)

\* tab ids ever given out
MaxTabId == 2

\* sends that go past the input check
MaxSends == 2

\* a message widget of _add_message_to_ui
MessageWidget(content, is_user) ==
    [kind |-> "message", content |-> content, is_user |-> is_user, id |-> 0]

\* the widget of _show_thinking_message
ThinkingWidget(id) ==
    [kind |-> "thinking", content |-> <<"Thinking...">>, is_user |-> FALSE, id |-> id]

\* s without its k-th item
RemoveAt(s, k) == SubSeq(s, 1, k - 1) \o SubSeq(s, k + 1, Len(s))

\* the message area after _clear_messages and one _add_message_to_ui for
\* each message of the history
Restore(history) ==
    [k \in 1..Len(history) |->
        MessageWidget(history[k].content, history[k].role = "user")]

\* tab_data["history"].append(...) on the tab data a send holds; a tab data
\* deleted from chat_tabs takes the append where nothing reads it
AppendHistory(g, tab_id, role, content) ==
    IF tab_id \in DOMAIN g.chat_tabs
    THEN [g EXCEPT !.chat_tabs[tab_id] =
                       Append(@, [role |-> role, content |-> content])]
    ELSE g

\* _add_message_to_ui
AddMessage(g, content, is_user) ==
    [g EXCEPT !.messageLayout = Append(@, MessageWidget(content, is_user))]

\* on_tab_changed(index): the slot of the tab widget's currentChanged
on_tab_changed(g, index_) ==
    IF index_ < 1 THEN g
    ELSE IF g.chatTabs.tabs[index_] \notin DOMAIN g.chat_tabs THEN g
    ELSE [g EXCEPT !.current_tab_index = g.chatTabs.tabs[index_],
                   !.messageLayout = Restore(g.chat_tabs[g.chatTabs.tabs[index_]])]

\* chatTabs.setCurrentIndex(index): currentChanged is emitted when the
\* current tab changes
setCurrentIndex(g, index_) ==
    IF index_ \in 1..Len(g.chatTabs.tabs) /\ index_ # g.chatTabs.currentIndex
    THEN on_tab_changed([g EXCEPT !.chatTabs.currentIndex = index_], index_)
    ELSE g

\* chatTabs.addTab(tab_widget, f"Chat {tab_id}"): the first tab of an empty
\* tab widget becomes current
addTab(g, tab_id) ==
    LET added == [g EXCEPT !.chatTabs.tabs = Append(@, tab_id)]
    IN  IF Len(g.chatTabs.tabs) = 0 THEN setCurrentIndex(added, 1) ELSE added

\* chatTabs.removeTab(index): when the current tab is removed the tab to its
\* right, else the last one, becomes current; when a tab before it is
\* removed the current tab moves one position down; both emit currentChanged
removeTab(g, index_) ==
    LET cur == g.chatTabs.currentIndex
        rest == RemoveAt(g.chatTabs.tabs, index_)
    IN  IF index_ = cur
        THEN setCurrentIndex(
                 [g EXCEPT !.chatTabs = [tabs |-> rest, currentIndex |-> 0]],
                 IF index_ <= Len(rest) THEN index_ ELSE Len(rest))
        ELSE IF index_ < cur
        THEN setCurrentIndex(
                 [g EXCEPT !.chatTabs = [tabs |-> rest, currentIndex |-> 0]],
                 cur - 1)
        ELSE [g EXCEPT !.chatTabs.tabs = rest]

\* get_welcome_message()
welcome_message == <<"welcome">>

\* _create_new_tab
create_new_tab(g) ==
    LET tab_id == g.next_tab_id
        made == [g EXCEPT !.next_tab_id = @ + 1,
                          !.chat_tabs = [t \in DOMAIN @ \cup {tab_id} |->
                                            IF t = tab_id THEN <<>> ELSE @[t]]]
        added == addTab(made, tab_id)
        shown == [setCurrentIndex(added, Len(added.chatTabs.tabs))
                     EXCEPT !.current_tab_index = tab_id,
                            !.messageLayout = <<MessageWidget(welcome_message, FALSE)>>]
    IN  AppendHistory(shown, tab_id, "assistant", welcome_message)

\* _get_current_tab_data: the plugin after it, tab_data being the data of
\* its current_tab_index
get_current_tab_data(g) ==
    IF g.current_tab_index \notin DOMAIN g.chat_tabs THEN create_new_tab(g) ELSE g

\* the test on the number of tabs left out
LastTab_never(count) == FALSE

\* if self.ui.chatTabs.count() <= 1: return
LastTab(count) == count <= 1

\* on_tab_close_requested(index)
on_tab_close_requested(g, index_) ==
    IF LastTab(Len(g.chatTabs.tabs)) THEN g
    ELSE LET tab_id == g.chatTabs.tabs[index_]
         IN  removeTab([g EXCEPT !.chat_tabs =
                                    [t \in DOMAIN @ \ {tab_id} |-> @[t]]],
                       index_)

\* on_new_chat_clicked
on_new_chat_clicked(g) == create_new_tab(g)

\* _show_thinking_message
show_thinking_message(g) ==
    [g EXCEPT !.widgets = @ + 1,
              !.thinking_widget = Some(g.widgets + 1),
              !.thinking_timer = Some(g.widgets + 1),
              !.messageLayout = Append(@, ThinkingWidget(g.widgets + 1))]

\* _hide_thinking_message
hide_thinking_message(g) ==
    LET Other_(w) == ~(w.kind = "thinking" /\ Some(w.id) = g.thinking_widget)
    IN  [g EXCEPT !.thinking_timer = None,
                  !.thinking_widget = None,
                  !.messageLayout = IF g.thinking_widget # None
                                    THEN SelectSeq(@, Other_)
                                    ELSE @]

\* the object after __init__
Constructed ==
    [chat_tabs |-> <<>>, current_tab_index |-> 0, next_tab_id |-> 1,
     chatTabs |-> [tabs |-> <<>>, currentIndex |-> 0],
     messageLayout |-> <<>>, thinking_widget |-> None, thinking_timer |-> None,
     widgets |-> 0, stack |-> <<>>, replies |-> {}]

\* a reply appended by a send to the data of its tab, and what the plugin
\* held at that moment
Reply(g, tab_id, content) ==
    [AppendHistory(g, tab_id, "assistant", content)
        EXCEPT !.replies = @ \cup {[held    |-> tab_id \in DOMAIN g.chat_tabs,
                                    current |-> tab_id = g.current_tab_index]}]

\* the innermost running send
Top(g) == g.stack[Len(g.stack)]

\* the running send returns
Return(g) == [g EXCEPT !.stack = SubSeq(@, 1, Len(@) - 1)]

\* the except clauses of on_send_clicked, then its return
send_except(g) == Return(hide_thinking_message(g))

\* on_send_clicked up to its first processEvents
send_begin(g, user_message) ==
    IF ~Truthy(user_message)
    THEN g
    ELSE LET got == get_current_tab_data(g)
             tab_id == got.current_tab_index
             said == AppendHistory(AddMessage(got, <<user_message>>, TRUE),
                                   tab_id, "user", <<user_message>>)
         IN  [show_thinking_message(said)
                 EXCEPT !.stack = Append(@, [pc |-> "events603", tab |-> tab_id,
                                             description |-> ""])]

\* from the first processEvents to the second: the bounding box and the LLM
\* call, which raise or return a chat or a query reply
send_llm(g, result) ==
    IF result = "raise"
    THEN send_except(g)
    ELSE [hide_thinking_message(g)
             EXCEPT !.stack[Len(g.stack)].pc = "events616",
                    !.stack[Len(g.stack)].description =
                        IF result = "query" THEN "cafes" ELSE ""]

\* from the second processEvents on: a chat reply is shown and recorded and
\* the send returns; a query is announced and the third processEvents entered
send_mode(g) ==
    IF Top(g).description = ""
    THEN Return(Reply(AddMessage(g, <<"reply">>, FALSE), Top(g).tab, <<"reply">>))
    ELSE [Reply(AddMessage(g, <<"Fetching: ", Top(g).description>>, FALSE),
                Top(g).tab, <<"Executing query: ", Top(g).description>>)
             EXCEPT !.stack[Len(g.stack)].pc = "events652"]

\* from the third processEvents on: the fetch and the layer, which raise or
\* succeed
send_fetch(g, result) ==
    IF result = "raise"
    THEN send_except(g)
    ELSE Return(Reply(AddMessage(g, success_message(Top(g).description), FALSE),
                      Top(g).tab, success_message(Top(g).description)))

\* the state after initGui: the placeholder tab cleared, the first tab made
InitTabs ==
    /\ plugin = create_new_tab(Constructed)
    /\ calls = Unused
    /\ llm = Unused
    /\ send = Unused
    /\ elem = IdleElem
    /\ index = <<>>
    /\ outcome = IdleOutcome
    /\ call = "OsmAiPlugin"
    /\ response = "ok"
    /\ osm_data = NoPayload
    /\ pc = "plugin"
    /\ i = 1
    /\ nodes = <<>>
    /\ features = <<>>
    /\ origin = <<>>
    /\ exception = None
    /\ returned = None

\* a callback dispatched by the event loop or by the processEvents call the
\* innermost send stands in
Callback(g) ==
    /\ plugin' = g
    /\ UNCHANGED <<coreVars, calls, llm, send>>

\* the new-chat button
NewChat ==
    /\ plugin.next_tab_id <= MaxTabId
    /\ Callback(on_new_chat_clicked(plugin))

\* a click on another tab
TabClick(index_) ==
    /\ index_ # plugin.chatTabs.currentIndex
    /\ Callback(setCurrentIndex(plugin, index_))

\* a click on the close button of a tab
TabClose(index_) ==
    Callback(on_tab_close_requested(plugin, index_))

\* the send button or the send key
SendClicked(user_message) ==
    /\ plugin.widgets < MaxSends
    /\ Callback(send_begin(plugin, user_message))

\* the first processEvents of the innermost send returns
SendAfter603(result) ==
    /\ plugin.stack # <<>>
    /\ Top(plugin).pc = "events603"
    /\ Callback(send_llm(plugin, result))

\* its second processEvents returns
SendAfter616 ==
    /\ plugin.stack # <<>>
    /\ Top(plugin).pc = "events616"
    /\ Callback(send_mode(plugin))

\* its third processEvents returns
SendAfter652(result) ==
    /\ plugin.stack # <<>>
    /\ Top(plugin).pc = "events652"
    /\ Callback(send_fetch(plugin, result))

NextTabs ==
    \/ NewChat
    \/ \E index_ \in 1..Len(plugin.chatTabs.tabs) : TabClick(index_)
    \/ \E index_ \in 1..Len(plugin.chatTabs.tabs) : TabClose(index_)
    \/ \E user_message \in {"", "hi"} : SendClicked(user_message)
    \/ \E result \in {"raise", "chat", "query"} : SendAfter603(result)
    \/ SendAfter616
    \/ \E result \in {"raise", "ok"} : SendAfter652(result)

SpecTabs == InitTabs /\ [][NextTabs]_vars

-----------------------------------------------------------------------------
(* Claims checked under SpecTabs *)

\* no call of on_send_clicked is running
NoSendInProgress == plugin.stack = <<>>

\* C24: a chat tab is always open, in the tab widget and in chat_tabs, and a
\* close request on the only tab leaves the tab widget and chat_tabs as they
\* are.
C24_OneTabAlwaysRemains ==
    /\ Len(plugin.chatTabs.tabs) >= 1
    /\ DOMAIN plugin.chat_tabs # {}
    /\ Len(plugin.chatTabs.tabs) = 1 =>
          /\ on_tab_close_requested(plugin, 1).chatTabs = plugin.chatTabs
          /\ on_tab_close_requested(plugin, 1).chat_tabs = plugin.chat_tabs

\* two tabs were made, the first was closed and the second is the only one
C24_Witness ==
    /\ plugin.next_tab_id = 3
    /\ plugin.chatTabs.tabs = <<2>>
    /\ DOMAIN plugin.chat_tabs = {2}
    /\ plugin.current_tab_index = 2

\* C26 as stated: while no send is running the thinking indicator is gone:
\* thinking_widget and thinking_timer are None and no thinking widget stands
\* in the message area.
C26_NoIndicatorOutsideASend ==
    NoSendInProgress =>
        /\ plugin.thinking_widget = None
        /\ plugin.thinking_timer = None
        /\ \A k \in DOMAIN plugin.messageLayout :
              plugin.messageLayout[k].kind # "thinking"

\* C27 as stated: while no send is running the message area shows the
\* history of the current tab, the same contents in the same order.
C27_DisplayIsCurrentHistory ==
    NoSendInProgress =>
        /\ plugin.current_tab_index \in DOMAIN plugin.chat_tabs
        /\ plugin.messageLayout = Restore(plugin.chat_tabs[plugin.current_tab_index])

\* C28 as stated: whenever a send appends a reply, chat_tabs holds the tab
\* the user's message was recorded in and that tab is the current tab.
C28_RepliesGoToTheCurrentTab ==
    \A reply \in plugin.replies : reply.held /\ reply.current

====
